---------------------------- MODULE Spec2Model ----------------------------
(***************************************************************************)
(* ToneCraft (src/app.py): a Streamlit script that resolves an API key,    *)
(* builds a prompt from a sentence and a tone preset, calls the Gemini     *)
(* generation service once and keeps the rewritten sentence in             *)
(* st.session_state["output"].                                             *)
(*                                                                         *)
(* Python strings are sequences of characters.  A run of text that holds   *)
(* no whitespace at either end and is never cut by the program (a line of  *)
(* the prompt template, a tone instruction, a message literal) is one      *)
(* element of such a sequence.  Python's None is the value None below.     *)
(* Message literals are written in ASCII: emoji, backquotes and the        *)
(* typographic apostrophe of the source are left out.                      *)
(***************************************************************************)
EXTENDS Naturals, Sequences, FiniteSets

VARIABLES session_state, run, fn, args, result, done

vars == <<session_state, run, fn, args, result, done>>

(***************************************************************************)
(* Bounds of the model.                                                    *)
(***************************************************************************)
MaxTextLen == 3
MaxReplyLen == 3
MaxRunTextLen == 2
MaxRunReplyLen == 2

(***************************************************************************)
(* Python values and str operations.                                       *)
(***************************************************************************)
None == <<"<None>">>

Whitespace == {" ", "\n", "\t"}

\* bool(v) of a str-or-None value: None and "" are falsy.
Truthy(v) == v # None /\ v # <<>>

\* a or b
PyOr(a, b) == IF Truthy(a) THEN a ELSE b

RECURSIVE LStrip(_)
LStrip(s) == IF s # <<>> /\ Head(s) \in Whitespace THEN LStrip(Tail(s)) ELSE s

RECURSIVE RStrip(_)
RStrip(s) ==
    IF s # <<>> /\ s[Len(s)] \in Whitespace
    THEN RStrip(SubSeq(s, 1, Len(s) - 1))
    ELSE s

\* str.strip() with no argument.
Strip(s) == RStrip(LStrip(s))

\* All strings over an alphabet of at most n characters.
Texts(alphabet, n) == UNION {[1..k -> alphabet] : k \in 0..n}

(***************************************************************************)
(* Tone presets.                                                           *)
(***************************************************************************)
TonePreset(label, instruction) == [label |-> label, instruction |-> instruction]

ToneKeys == {"Polite", "Friendly", "Professional"}

TONES ==
    [k \in ToneKeys |->
        CASE k = "Polite" ->
               TonePreset("Polite",
                   "Rewrite the sentence politely. Keep it short, respectful, and kind. Do not add extra information.")
          [] k = "Friendly" ->
               TonePreset("Friendly",
                   "Rewrite the sentence in a warm, friendly tone. Keep it natural and gentle. Do not add extra information.")
          [] k = "Professional" ->
               TonePreset("Professional",
                   "Rewrite the sentence in a professional tone (clear, calm, formal). Do not add extra information.")]

(***************************************************************************)
(* Credential resolver.                                                    *)
(***************************************************************************)
KeyNames == {"GEMINI_API_KEY", "GOOGLE_API_KEY"}

\* st.secrets.get(name, None): raises when no secrets store is configured.
secrets_get(secrets, name) ==
    [raised |-> ~secrets.configured,
     value  |-> IF secrets.configured THEN secrets.data[name] ELSE None]

\* os.getenv(name): None when the variable is unset.
os_getenv(environ, name) == environ[name]

\* get_api_key with the try/except around the secrets lookups left out.
get_api_key_unguarded(secrets, environ) ==
    LET first  == secrets_get(secrets, "GEMINI_API_KEY")
        second == secrets_get(secrets, "GOOGLE_API_KEY")
        key    == IF Truthy(first.value) THEN first.value ELSE second.value
    IN  IF first.raised \/ (~Truthy(first.value) /\ second.raised)
        THEN [raised |-> TRUE, value |-> None]
        ELSE [raised |-> FALSE,
              value  |-> IF Truthy(key) THEN key
                         ELSE PyOr(os_getenv(environ, "GEMINI_API_KEY"),
                                   os_getenv(environ, "GOOGLE_API_KEY"))]

\* get_api_key reading the two environment variables in the other order.
get_api_key_env_swapped(secrets, environ) ==
    LET first  == secrets_get(secrets, "GEMINI_API_KEY")
        second == secrets_get(secrets, "GOOGLE_API_KEY")
        key    == IF first.raised THEN None
                  ELSE IF Truthy(first.value) THEN first.value
                  ELSE IF second.raised THEN first.value
                  ELSE second.value
    IN  [raised |-> FALSE,
         value  |-> IF Truthy(key) THEN key
                    ELSE PyOr(os_getenv(environ, "GOOGLE_API_KEY"),
                              os_getenv(environ, "GEMINI_API_KEY"))]

\* The result is [raised, value]: raised says an exception left the function.
get_api_key(secrets, environ) ==
    LET first  == secrets_get(secrets, "GEMINI_API_KEY")
        second == secrets_get(secrets, "GOOGLE_API_KEY")
        \* key after the try block: an exception leaves the last assignment.
        key    == IF first.raised THEN None
                  ELSE IF Truthy(first.value) THEN first.value
                  ELSE IF second.raised THEN first.value
                  ELSE second.value
    IN  [raised |-> FALSE,
         value  |-> IF Truthy(key) THEN key
                    ELSE PyOr(os_getenv(environ, "GEMINI_API_KEY"),
                              os_getenv(environ, "GOOGLE_API_KEY"))]

(***************************************************************************)
(* Prompt builder.                                                         *)
(***************************************************************************)
Preamble ==
    << "You are a helpful writing assistant. Your goal is to rewrite one sentence with a bright, supportive vibe.",
       "\n", "Rules:",
       "\n", "- Preserve the original meaning.",
       "\n", "- Output ONLY the rewritten sentence. No quotes, no bullet points, no explanations.",
       "\n", "- Keep it concise (1 sentence).",
       "\n", "- Avoid harsh language or negativity; keep it calm and kind.",
       "\n", "\n", "Task:", "\n" >>

SentenceHeader == << "\n", "\n", "Sentence:", "\n" >>

\* build_prompt embedding user_text as it is.
build_prompt_raw_text(user_text, tone) ==
    Strip(<<"\n">> \o Preamble \o <<tone.instruction>> \o SentenceHeader
          \o user_text \o <<"\n">>)

build_prompt(user_text, tone) ==
    Strip(<<"\n">> \o Preamble \o <<tone.instruction>> \o SentenceHeader
          \o Strip(user_text) \o <<"\n">>)

(***************************************************************************)
(* Rewrite client.                                                         *)
(***************************************************************************)
TopP == 95
MaxOutputTokens == 120

Models == {"gemini-2.5-flash-lite", "gemini-2.5-flash"}

\* The slider's range, default and step, in hundredths.
TemperatureMin == 0
TemperatureMax == 100
TemperatureDefault == 30
TemperatureStep == 5

Temperatures ==
    {t \in TemperatureMin..TemperatureMax : t % TemperatureStep = 0}

\* The keyword arguments of client.models.generate_content.
GenerateContentRequest(model, prompt, temperature) ==
    [model    |-> model,
     contents |-> << [role |-> "user", parts |-> <<prompt>>] >>,
     config   |-> [temperature       |-> temperature,
                   top_p             |-> TopP,
                   max_output_tokens |-> MaxOutputTokens]]

\* call_gemini_rewrite returning response.text as it is.
call_gemini_rewrite_untrimmed(model, prompt, temperature, service) ==
    [request |-> GenerateContentRequest(model, prompt, temperature),
     raised  |-> service.raises,
     error   |-> IF service.raises THEN service.error ELSE "",
     value   |-> IF service.raises THEN None ELSE PyOr(service.text, <<>>)]

\* service is what generate_content does with the request: it raises
\* service.error, or returns a response whose text is service.text.
call_gemini_rewrite(model, prompt, temperature, service) ==
    [request |-> GenerateContentRequest(model, prompt, temperature),
     raised  |-> service.raises,
     error   |-> IF service.raises THEN service.error ELSE "",
     value   |-> IF service.raises THEN None
                 ELSE Strip(PyOr(service.text, <<>>))]

(***************************************************************************)
(* Ambient configuration and the inputs of a script run.                   *)
(***************************************************************************)
\* A source is unset (None), set to the empty string, or set to a key.
SourceValues(key) == {None, <<>>, <<key>>}

SecretsData ==
    {[n \in KeyNames |-> IF n = "GEMINI_API_KEY" THEN a ELSE b] :
        a \in SourceValues("key-from-secrets-GEMINI"),
        b \in SourceValues("key-from-secrets-GOOGLE")}

SecretsStores ==
    {[configured |-> FALSE, data |-> [n \in KeyNames |-> None]]}
    \cup {[configured |-> TRUE, data |-> d] : d \in SecretsData}

Environments ==
    {[n \in KeyNames |-> IF n = "GEMINI_API_KEY" THEN a ELSE b] :
        a \in SourceValues("key-from-env-GEMINI"),
        b \in SourceValues("key-from-env-GOOGLE")}

Configs == SecretsStores \X Environments

\* The values of the four sources in the priority order of the docstring.
Sources(secrets, environ) ==
    << secrets.data["GEMINI_API_KEY"], secrets.data["GOOGLE_API_KEY"],
       environ["GEMINI_API_KEY"], environ["GOOGLE_API_KEY"] >>

TextAlphabet == {" ", "\n", "a"}
ReplyAlphabet == {" ", "\n", "x"}

\* google.genai.errors: the request was refused, or the service failed.
ServiceErrors == {"ClientError", "ServerError"}

\* What generate_content can do: raise, or answer with a text or with none.
ServiceOutcomes(texts) ==
    {[raises |-> TRUE, text |-> None, error |-> e] : e \in ServiceErrors}
    \cup {[raises |-> FALSE, text |-> t, error |-> ""] : t \in {None} \cup texts}

NoService == [raises |-> FALSE, text |-> None, error |-> ""]

(***************************************************************************)
(* st.session_state: a set of <<key, value>> pairs, one per key.           *)
(***************************************************************************)
ss_contains(ss, k) == \E p \in ss : p[1] = k

ss_get(ss, k) == (CHOOSE p \in ss : p[1] = k)[2]

ss_pop(ss, k) == {p \in ss : p[1] # k}

ss_set(ss, k, v) == ss_pop(ss, k) \cup {<<k, v>>}

(***************************************************************************)
(* What a script run puts on the page below the two buttons.               *)
(***************************************************************************)
Element(widget, body) == [widget |-> widget, body |-> body]

WarnTypeSentence == Element("warning", <<"Please type a sentence first">>)

ErrMissingKey ==
    Element("error",
        <<"Missing API key. Add GEMINI_API_KEY in Streamlit Secrets (or as an environment variable).">>)

ErrNoResponse == Element("error", <<"I did not get a response. Please try again.">>)

ErrWentWrong == Element("error", <<"Something went wrong while calling Gemini.">>)

ExceptionDetail(e) == Element("exception", <<e>>)

PolishedHeading == Element("markdown", <<"### Polished sentence">>)

PolishedCard(text) == Element("markdown", <<"<div class=sakura-card>">> \o text \o <<"</div>">>)

DownloadButton(data) == Element("download_button", data)

\* The block under `if "output" in st.session_state`.
render_output(ss) ==
    IF ss_contains(ss, "output")
    THEN << PolishedHeading,
            PolishedCard(ss_get(ss, "output")),
            DownloadButton(ss_get(ss, "output")) >>
    ELSE <<>>

(***************************************************************************)
(* main: one script run.  The result is the session state the run leaves,  *)
(* what it displayed, the requests it sent to the generation service and   *)
(* how it ended.                                                           *)
(***************************************************************************)
\* In place of the key in a run that never calls get_api_key.
NotLookedUp == <<"<not looked up>">>

\* ended: "rerun" (st.rerun()), "return" (a return inside the Polish block),
\* "end" (the end of main) or "raised" (an exception left main).
RunResult(ss, display, requests, key, out, ended) ==
    [session_state |-> ss,
     display       |-> display,
     requests      |-> requests,
     key_looked_up |-> key # NotLookedUp,
     api_key       |-> IF key = NotLookedUp THEN None ELSE key,
     out           |-> out,
     ended         |-> ended]

\* Clear that restarts the run and leaves the stored output in place.
clear_branch_keeps_output(ss) ==
    RunResult(ss, <<>>, <<>>, NotLookedUp, None, "rerun")

\* if clear: pop the output and st.rerun(), which ends this run.
clear_branch(ss) ==
    RunResult(ss_pop(ss, "output"), <<>>, <<>>, NotLookedUp, None, "rerun")

\* The try body after the call that stores whatever came back.
after_call_stores_any(ss, key, r) ==
    IF r.raised
    THEN RunResult(ss, <<ErrWentWrong, ExceptionDetail(r.error)>> \o render_output(ss),
                   <<r.request>>, key, None, "end")
    ELSE RunResult(ss_set(ss, "output", r.value),
                   render_output(ss_set(ss, "output", r.value)),
                   <<r.request>>, key, r.value, "end")

\* The except clause that reports the fault and returns.
after_call_except_returns(ss, key, r) ==
    IF r.raised
    THEN RunResult(ss, <<ErrWentWrong, ExceptionDetail(r.error)>>,
                   <<r.request>>, key, None, "return")
    ELSE IF ~Truthy(r.value)
    THEN RunResult(ss, <<ErrNoResponse>>, <<r.request>>, key, r.value, "return")
    ELSE RunResult(ss_set(ss, "output", r.value),
                   render_output(ss_set(ss, "output", r.value)),
                   <<r.request>>, key, r.value, "end")

\* The empty result reported and then handled as a fault as well.
after_call_empty_falls_through(ss, key, r) ==
    IF r.raised
    THEN RunResult(ss, <<ErrWentWrong, ExceptionDetail(r.error)>> \o render_output(ss),
                   <<r.request>>, key, None, "end")
    ELSE IF ~Truthy(r.value)
    THEN RunResult(ss, <<ErrNoResponse, ErrWentWrong>> \o render_output(ss),
                   <<r.request>>, key, r.value, "end")
    ELSE RunResult(ss_set(ss, "output", r.value),
                   render_output(ss_set(ss, "output", r.value)),
                   <<r.request>>, key, r.value, "end")

\* The empty result answered by sending the request a second time.
after_call_retries_on_empty(ss, key, r) ==
    IF r.raised
    THEN RunResult(ss, <<ErrWentWrong, ExceptionDetail(r.error)>> \o render_output(ss),
                   <<r.request>>, key, None, "end")
    ELSE IF ~Truthy(r.value)
    THEN RunResult(ss, <<ErrNoResponse>>, <<r.request, r.request>>, key, r.value, "return")
    ELSE RunResult(ss_set(ss, "output", r.value),
                   render_output(ss_set(ss, "output", r.value)),
                   <<r.request>>, key, r.value, "end")

\* The empty result dropping the output stored by an earlier run.
after_call_empty_drops_output(ss, key, r) ==
    IF r.raised
    THEN RunResult(ss, <<ErrWentWrong, ExceptionDetail(r.error)>> \o render_output(ss),
                   <<r.request>>, key, None, "end")
    ELSE IF ~Truthy(r.value)
    THEN RunResult(ss_pop(ss, "output"), <<ErrNoResponse>>, <<r.request>>, key,
                   r.value, "return")
    ELSE RunResult(ss_set(ss, "output", r.value),
                   render_output(ss_set(ss, "output", r.value)),
                   <<r.request>>, key, r.value, "end")

\* From the return of call_gemini_rewrite (r) to the end of main: the rest
\* of the try body, the except clause and the output block.
after_call(ss, key, r) ==
    IF r.raised
    THEN RunResult(ss, <<ErrWentWrong, ExceptionDetail(r.error)>> \o render_output(ss),
                   <<r.request>>, key, None, "end")
    ELSE IF ~Truthy(r.value)
    THEN RunResult(ss, <<ErrNoResponse>>, <<r.request>>, key, r.value, "return")
    ELSE RunResult(ss_set(ss, "output", r.value),
                   render_output(ss_set(ss, "output", r.value)),
                   <<r.request>>, key, r.value, "end")

\* get_client(api_key) raising inside the try block: no request is sent.
client_fault(ss, key, e) ==
    RunResult(ss, <<ErrWentWrong, ExceptionDetail(e)>> \o render_output(ss),
              <<>>, key, None, "end")

\* The block under `if generate`.  client_error is "" when get_client
\* returns a client, else the exception it raises.
polish_branch(ss, user_text, tone_key, model, temperature, secrets, environ, client_error, service) ==
    IF ~Truthy(Strip(user_text))
    THEN RunResult(ss, <<WarnTypeSentence>>, <<>>, NotLookedUp, None, "return")
    ELSE LET api_key == get_api_key(secrets, environ)
         IN  IF api_key.raised
             THEN RunResult(ss, <<>>, <<>>, None, None, "raised")
             ELSE IF ~Truthy(api_key.value)
             THEN RunResult(ss, <<ErrMissingKey>>, <<>>, api_key.value, None, "return")
             ELSE IF client_error # ""
             THEN client_fault(ss, api_key.value, client_error)
             ELSE after_call(ss, api_key.value,
                      call_gemini_rewrite(model,
                          build_prompt(user_text, TONES[tone_key]),
                          temperature, service))

\* main from the two buttons on.  generate and clear are what the buttons
\* returned in this run.
main(ss, generate, clear, user_text, tone_key, model, temperature, secrets, environ, client_error, service) ==
    IF clear
    THEN clear_branch(ss)
    ELSE IF generate
    THEN polish_branch(ss, user_text, tone_key, model, temperature,
                       secrets, environ, client_error, service)
    ELSE RunResult(ss, render_output(ss), <<>>, NotLookedUp, None, "end")

(***************************************************************************)
(* The script runs of one browser session.                                 *)
(***************************************************************************)
RunAlphabet == {" ", "a"}

RunTexts == Texts(RunAlphabet, MaxRunTextLen)

RunServiceOutcomes == ServiceOutcomes(Texts({" ", "x"}, MaxRunReplyLen))

RunTemperatures == {TemperatureDefault}

ClientErrors == {"", "ValueError"}

\* The configurations with at most one of the four sources set to a key.
RunConfigs ==
    {c \in Configs :
        /\ \A i \in 1..4 : Sources(c[1], c[2])[i] # <<>>
        /\ Cardinality({i \in 1..4 : Sources(c[1], c[2])[i] # None}) <= 1}

NoConfig ==
    << [configured |-> FALSE, data |-> [n \in KeyNames |-> None]],
       [n \in KeyNames |-> None] >>

\* The inputs of a run in which no button was clicked, and the values the
\* inputs below take where a run does not read them.
Idle ==
    [user_text |-> <<>>, tone_key |-> "Polite",
     model |-> "gemini-2.5-flash-lite", temperature |-> TemperatureDefault,
     config |-> NoConfig, client_error |-> "", service |-> NoService]

\* The inputs of a run started by Polish.  A blank sentence ends the run
\* before anything else is read, and a get_client that raises before the
\* service is reached.
PolishInputs ==
    {[Idle EXCEPT !.user_text = t] : t \in {t \in RunTexts : ~Truthy(Strip(t))}}
    \cup
    {[user_text |-> t, tone_key |-> k, model |-> m, temperature |-> d,
      config |-> c, client_error |-> e[1], service |-> e[2]] :
        t \in {t \in RunTexts : Truthy(Strip(t))}, k \in ToneKeys, m \in Models,
        d \in RunTemperatures, c \in RunConfigs,
        e \in ({""} \X RunServiceOutcomes)
              \cup ((ClientErrors \ {""}) \X {NoService})}

\* What the state keeps of a run: the inputs that decided it and its result.
RunRecord(generate, clear, user_text, service, client_error, res) ==
    [generate     |-> generate,
     clear        |-> clear,
     blank        |-> generate /\ ~clear /\ ~Truthy(Strip(user_text)),
     service      |-> service,
     client_error |-> client_error,
     key_looked_up |-> res.key_looked_up,
     api_key      |-> res.api_key,
     calls        |-> Len(res.requests),
     out          |-> res.out,
     display      |-> res.display,
     ended        |-> res.ended]

\* main on the inputs i.
Script(ss, generate, clear, i) ==
    main(ss, generate, clear, i.user_text, i.tone_key, i.model, i.temperature,
         i.config[1], i.config[2], i.client_error, i.service)

\* The first run of the session: the page is loaded, no button was clicked.
Init ==
    /\ session_state = Script({}, FALSE, FALSE, Idle).session_state
    /\ run = RunRecord(FALSE, FALSE, <<>>, NoService, "",
                       Script({}, FALSE, FALSE, Idle))
    /\ fn = "none"
    /\ args = <<>>
    /\ result = <<>>
    /\ done = TRUE

\* A run no button started: st.rerun() after Clear, or a widget changed.
Rerun ==
    /\ \E res \in {Script(session_state, FALSE, FALSE, Idle)} :
          /\ session_state' = res.session_state
          /\ run' = RunRecord(FALSE, FALSE, <<>>, NoService, "", res)
    /\ UNCHANGED <<fn, args, result, done>>

\* The run started by a click on Clear.
ClearClick ==
    /\ run.ended # "rerun"
    /\ \E res \in {Script(session_state, FALSE, TRUE, Idle)} :
          /\ session_state' = res.session_state
          /\ run' = RunRecord(FALSE, TRUE, <<>>, NoService, "", res)
    /\ UNCHANGED <<fn, args, result, done>>

\* The run started by a click on Polish.  The record keeps the service
\* outcome and the client error only of a run that reached them.
PolishClick ==
    /\ run.ended # "rerun"
    /\ \E i \in PolishInputs :
          \E res \in {Script(session_state, TRUE, FALSE, i)} :
              /\ session_state' = res.session_state
              /\ run' = RunRecord(TRUE, FALSE, i.user_text,
                            IF Len(res.requests) = 0 THEN NoService ELSE i.service,
                            IF res.key_looked_up /\ Truthy(res.api_key)
                            THEN i.client_error ELSE "",
                            res)
    /\ UNCHANGED <<fn, args, result, done>>

Next == Rerun \/ ClearClick \/ PolishClick

Spec == Init /\ [][Next]_vars

(***************************************************************************)
(* The three functions called on their own: FnInit draws a function and    *)
(* its arguments, and the function's action applies it.                    *)
(***************************************************************************)
FnTexts == Texts(TextAlphabet, MaxTextLen)

FnServiceOutcomes == ServiceOutcomes(Texts(ReplyAlphabet, MaxReplyLen))

FnPrompts == {build_prompt(<<"a">>, TONES[k]) : k \in ToneKeys}

FnArgs(f) ==
    CASE f = "get_api_key" ->
           {[secrets |-> c[1], environ |-> c[2]] : c \in Configs}
      [] f = "build_prompt" ->
           {[user_text |-> t, tone |-> TONES[k]] : t \in FnTexts, k \in ToneKeys}
      [] f = "call_gemini_rewrite" ->
           {[model |-> m, prompt |-> p, temperature |-> d, service |-> o] :
               m \in Models, p \in FnPrompts, d \in Temperatures,
               o \in FnServiceOutcomes}

FnInit ==
    /\ session_state = Script({}, FALSE, FALSE, Idle).session_state
    /\ run = RunRecord(FALSE, FALSE, <<>>, NoService, "",
                       Script({}, FALSE, FALSE, Idle))
    /\ fn \in {"get_api_key", "build_prompt", "call_gemini_rewrite"}
    /\ args \in FnArgs(fn)
    /\ result = <<>>
    /\ done = FALSE

CallGetApiKey ==
    /\ fn = "get_api_key" /\ ~done
    /\ result' = get_api_key(args.secrets, args.environ)
    /\ done' = TRUE
    /\ UNCHANGED <<session_state, run, fn, args>>

CallBuildPrompt ==
    /\ fn = "build_prompt" /\ ~done
    /\ result' = build_prompt(args.user_text, args.tone)
    /\ done' = TRUE
    /\ UNCHANGED <<session_state, run, fn, args>>

CallGeminiRewrite ==
    /\ fn = "call_gemini_rewrite" /\ ~done
    /\ result' = call_gemini_rewrite(args.model, args.prompt, args.temperature,
                                     args.service)
    /\ done' = TRUE
    /\ UNCHANGED <<session_state, run, fn, args>>

FnNext == CallGetApiKey \/ CallBuildPrompt \/ CallGeminiRewrite

FnSpec == FnInit /\ [][FnNext]_vars

(***************************************************************************)
(* Vocabulary of the properties.                                           *)
(***************************************************************************)
Range(seq) == {seq[i] : i \in DOMAIN seq}

\* t is s without its leading and trailing whitespace.
IsTrimOf(t, s) ==
    \E i \in 1..(Len(s) + 1), j \in 0..Len(s) :
        /\ t = SubSeq(s, i, j)
        /\ \A k \in 1..(i - 1) : s[k] \in Whitespace
        /\ \A k \in (j + 1)..Len(s) : s[k] \in Whitespace
        /\ IF i <= j THEN s[i] \notin Whitespace /\ s[j] \notin Whitespace
           ELSE \A k \in 1..Len(s) : s[k] \in Whitespace

IsPrefix(p, s) == Len(p) <= Len(s) /\ SubSeq(s, 1, Len(p)) = p

\* The first of the four sources, in priority order, that holds a key.
FirstSet(src) ==
    IF \E i \in 1..4 : Truthy(src[i])
    THEN src[CHOOSE i \in 1..4 :
                 Truthy(src[i]) /\ \A j \in 1..(i - 1) : ~Truthy(src[j])]
    ELSE None

(***************************************************************************)
(* C1: get_api_key returns the first non-empty value in the order secrets  *)
(* GEMINI_API_KEY, secrets GOOGLE_API_KEY, environment GEMINI_API_KEY,     *)
(* environment GOOGLE_API_KEY: a lower source is used only when every      *)
(* higher one is unset or empty.                                           *)
(***************************************************************************)
C1_PriorityOrder ==
    (fn = "get_api_key" /\ done) =>
        LET src == Sources(args.secrets, args.environ)
        IN  IF \E i \in 1..4 : Truthy(src[i])
            THEN result.value = FirstSet(src)
            ELSE ~Truthy(result.value)

\* Only the environment variable GOOGLE_API_KEY is set, and it is returned.
C1_Witness ==
    /\ fn = "get_api_key" /\ done
    /\ Sources(args.secrets, args.environ)
         = <<None, None, None, <<"key-from-env-GOOGLE">>>>
    /\ result.value = <<"key-from-env-GOOGLE">>

(***************************************************************************)
(* C2: get_api_key never raises.  With no source holding a non-empty value *)
(* it returns a value that `if not api_key` takes as unconfigured, and     *)
(* with no secrets store configured (the lookups raise) it resolves the    *)
(* key from the environment variables.                                     *)
(***************************************************************************)
C2_NeverRaises ==
    (fn = "get_api_key" /\ done) =>
        /\ ~result.raised
        /\ (\A i \in 1..4 : ~Truthy(Sources(args.secrets, args.environ)[i]))
              => ~Truthy(result.value)
        /\ ~args.secrets.configured =>
              IF Truthy(args.environ["GEMINI_API_KEY"])
              THEN result.value = args.environ["GEMINI_API_KEY"]
              ELSE IF Truthy(args.environ["GOOGLE_API_KEY"])
              THEN result.value = args.environ["GOOGLE_API_KEY"]
              ELSE ~Truthy(result.value)

\* The secrets lookup raised and the key came from the environment.
C2_Witness ==
    /\ fn = "get_api_key" /\ done
    /\ ~args.secrets.configured
    /\ secrets_get(args.secrets, "GEMINI_API_KEY").raised
    /\ args.environ["GEMINI_API_KEY"] = <<"key-from-env-GEMINI">>
    /\ ~result.raised
    /\ result.value = <<"key-from-env-GEMINI">>

(***************************************************************************)
(* C6: for each of the three tones and every user text, build_prompt       *)
(* returns the fixed preamble, then the tone's instruction, then the       *)
(* sentence header and, last, the user text without its leading and        *)
(* trailing whitespace and with nothing of that whitespace around it.      *)
(***************************************************************************)
C6_PromptShape ==
    (fn = "build_prompt" /\ done) =>
        /\ args.tone \in {TONES[k] : k \in ToneKeys}
        /\ IsPrefix(Preamble, result)
        /\ result[Len(Preamble) + 1] = args.tone.instruction
        /\ \E t \in FnTexts :
              /\ IsTrimOf(t, args.user_text)
              /\ result = Preamble \o <<args.tone.instruction>>
                          \o (IF t = <<>> THEN <<"\n", "\n", "Sentence:">>
                              ELSE <<"\n", "\n", "Sentence:", "\n">> \o t)

\* A sentence with whitespace on both sides is embedded without it.
C6_Witness ==
    /\ fn = "build_prompt" /\ done
    /\ args.user_text = <<" ", "a", "\n">>
    /\ args.tone = TONES["Professional"]
    /\ SubSeq(result, Len(result) - 2, Len(result)) = <<"Sentence:", "\n", "a">>

(***************************************************************************)
(* C7: call_gemini_rewrite sends one request with the given model, the     *)
(* prompt as the only content, the caller's temperature, top_p 0.95 and    *)
(* max_output_tokens 120.  It returns the service's text without its       *)
(* surrounding whitespace, the empty string when the text is absent,       *)
(* empty or all whitespace, and lets a fault of the service through        *)
(* unchanged.                                                              *)
(***************************************************************************)
C7_RewriteContract ==
    (fn = "call_gemini_rewrite" /\ done) =>
        /\ result.request =
              [model    |-> args.model,
               contents |-> << [role |-> "user", parts |-> <<args.prompt>>] >>,
               config   |-> [temperature |-> args.temperature, top_p |-> 95,
                             max_output_tokens |-> 120]]
        /\ args.service.raises =>
              result.raised /\ result.error = args.service.error
        /\ ~args.service.raises =>
              /\ ~result.raised
              /\ IF args.service.text = None
                 THEN result.value = <<>>
                 ELSE IsTrimOf(result.value, args.service.text)
              /\ (args.service.text # None
                  /\ \A k \in DOMAIN args.service.text :
                        args.service.text[k] \in Whitespace)
                    => result.value = <<>>

\* A text with whitespace on both sides comes back without it.
C7_Witness ==
    /\ fn = "call_gemini_rewrite" /\ done
    /\ args.service.text = <<" ", "x", "\n">>
    /\ ~result.raised
    /\ result.value = <<"x">>

(***************************************************************************)
(* Vocabulary of the properties of script runs.                            *)
(***************************************************************************)
\* The run was started by Polish and ended with the named failure.
BlankInput(r) == r.generate /\ r.blank

AbsentKey(r) == r.generate /\ r.key_looked_up /\ ~Truthy(r.api_key)

EmptyResult(r) ==
    r.generate /\ r.calls >= 1 /\ ~r.service.raises /\ r.out = <<>>

CallRaised(r) ==
    r.generate /\ (r.client_error # "" \/ (r.calls >= 1 /\ r.service.raises))

FailedPolish(r) ==
    BlankInput(r) \/ AbsentKey(r) \/ EmptyResult(r) \/ CallRaised(r)

\* The run was started by Polish and its call returned a sentence.
SucceededPolish(r) ==
    r.generate /\ r.calls >= 1 /\ ~r.service.raises /\ Truthy(r.out)

\* The page shows a polished sentence or a download button.
ShowsOutput(display) ==
    \E i \in DOMAIN display :
        \/ display[i].widget = "download_button"
        \/ display[i].widget = "markdown"

\* The page shows v as the polished sentence, with its download button,
\* from position i on.
ShowsOutputAt(display, i, v) ==
    /\ Len(display) = i + 2
    /\ display[i].widget = "markdown"
    /\ display[i + 1].widget = "markdown"
    /\ SubSeq(display[i + 1].body, 2, Len(display[i + 1].body) - 1) = v
    /\ display[i + 2] = [widget |-> "download_button", body |-> v]

C4_EmptyVersusException ==
    LET no_response == ErrNoResponse \in Range(run.display)
        went_wrong  == ErrWentWrong \in Range(run.display)
        detail(e)   == [widget |-> "exception", body |-> <<e>>] \in Range(run.display)
    IN  /\ run.ended # "raised"
        /\ EmptyResult(run) => no_response /\ ~went_wrong
        /\ (run.generate /\ run.calls >= 1 /\ run.service.raises)
              => went_wrong /\ detail(run.service.error) /\ ~no_response
        /\ (run.generate /\ run.client_error # "")
              => went_wrong /\ detail(run.client_error) /\ ~no_response
        /\ no_response => EmptyResult(run)
        /\ went_wrong => CallRaised(run)

\* The service raised, and the run reported it and ended normally.
C4_Witness ==
    /\ run.generate /\ run.calls = 1 /\ run.service.raises
    /\ run.display[1] = ErrWentWrong
    /\ run.display[2].widget = "exception"
    /\ run.ended = "end"

(***************************************************************************)
(* C5, as claimed: a failed Polish run leaves session_state["output"] as   *)
(* it was, and a Polish run with a sentence, a key and a non-empty reply   *)
(* of the service stores that reply as the output.                         *)
(***************************************************************************)
C5_AsClaimed ==
    [][ /\ FailedPolish(run') => session_state' = session_state
        /\ (run'.generate /\ ~run'.blank /\ Truthy(run'.api_key)
            /\ run'.calls = 1 /\ ~run'.service.raises
            /\ Truthy(run'.service.text))
              => session_state' = {<<"output", run'.service.text>>} ]_vars

(***************************************************************************)
(* C5, amended: a failed Polish run leaves session_state["output"] as it   *)
(* was, and a Polish run with a sentence, a key and a reply that is not    *)
(* empty once its surrounding whitespace is removed stores the reply       *)
(* without that whitespace as the output.                                  *)
(***************************************************************************)
C5_FailuresKeepOutput ==
    [][ /\ FailedPolish(run') => session_state' = session_state
        /\ (run'.generate /\ ~run'.blank /\ Truthy(run'.api_key)
            /\ run'.calls = 1 /\ ~run'.service.raises
            /\ Truthy(run'.service.text))
              => \E t \in Texts({" ", "x"}, MaxRunReplyLen) :
                    /\ IsTrimOf(t, run'.service.text)
                    /\ IF t = <<>>
                       THEN FailedPolish(run') /\ session_state' = session_state
                       ELSE session_state' = {<<"output", t>>} ]_vars

\* A reply with whitespace around it was stored without the whitespace.
C5_Witness ==
    /\ run.generate /\ run.calls = 1 /\ ~run.service.raises
    /\ run.service.text = <<" ", "x">>
    /\ session_state = {<<"output", <<"x">>>>}

(***************************************************************************)
(* C8: session_state["output"] is absent or a non-empty string without     *)
(* leading or trailing whitespace, and it is the result of the last        *)
(* successful rewrite call since the last Clear: Clear removes it, a       *)
(* successful call replaces it, every other run leaves it.  An empty or    *)
(* all-whitespace reply is never stored.                                   *)
(***************************************************************************)
C8_OutputIsLastResult ==
    /\ [](\A p \in session_state :
             /\ session_state = {p}
             /\ p[1] = "output"
             /\ p[2] # None /\ p[2] # <<>>
             /\ p[2][1] \notin Whitespace /\ p[2][Len(p[2])] \notin Whitespace)
    /\ [](run.calls >= 1 /\ ~run.service.raises /\ run.service.text # None
             => IsTrimOf(run.out, run.service.text))
    /\ [][ IF run'.clear
           THEN session_state' = {}
           ELSE IF SucceededPolish(run')
           THEN session_state' = {<<"output", run'.out>>}
           ELSE session_state' = session_state ]_vars

\* The stored output is the trimmed reply of the run's call.
C8_Witness ==
    /\ SucceededPolish(run)
    /\ run.service.text = <<"x", " ">>
    /\ session_state = {<<"output", <<"x">>>>}

(***************************************************************************)
(* C9: a Clear run removes the stored output, calls nothing, shows no      *)
(* output and restarts the script; the restarted run handles no button.    *)
(* From then on no run shows a polished sentence or a download button      *)
(* until a Polish run succeeds.                                            *)
(***************************************************************************)
C9_ClearRemovesOutput ==
    /\ [](run.clear =>
             /\ session_state = {}
             /\ run.calls = 0
             /\ run.ended = "rerun"
             /\ ~ShowsOutput(run.display))
    /\ [][ /\ run.ended = "rerun" => ~run'.generate /\ ~run'.clear
           /\ (session_state = {} /\ ~SucceededPolish(run'))
                 => session_state' = {} /\ ~ShowsOutput(run'.display) ]_vars

\* The run restarted by Clear: no output is stored and none is shown.
C9_Witness ==
    /\ run.clear
    /\ run.ended = "rerun"
    /\ session_state = {}
    /\ run.display = <<>>

(***************************************************************************)
(* C10: a Polish run that ends with the blank-input, missing-key or        *)
(* empty-result message shows no stored output, although the output stays  *)
(* stored; a run whose call raised shows the stored output below the       *)
(* error; every run that is neither a failed Polish run nor a Clear run    *)
(* shows the stored output.                                                *)
(***************************************************************************)
C10_RenderingByFailureKind ==
    LET stored == session_state # {}
        value  == ss_get(session_state, "output")
    IN  /\ (BlankInput(run) \/ AbsentKey(run) \/ EmptyResult(run)) =>
              /\ Len(run.display) = 1
              /\ ~ShowsOutput(run.display)
              /\ run.ended = "return"
        /\ CallRaised(run) =>
              /\ run.display[1] = ErrWentWrong
              /\ run.display[2].widget = "exception"
              /\ run.ended = "end"
              /\ IF stored THEN ShowsOutputAt(run.display, 3, value)
                 ELSE Len(run.display) = 2
        /\ (~FailedPolish(run) /\ ~run.clear) =>
              IF stored THEN ShowsOutputAt(run.display, 1, value)
              ELSE run.display = <<>>

\* The call raised and the output of an earlier run is shown below the error.
C10_Witness ==
    /\ CallRaised(run)
    /\ session_state # {}
    /\ run.display[1] = ErrWentWrong
    /\ Len(run.display) = 5
    /\ run.display[5].widget = "download_button"
    /\ run.display[5].body = ss_get(session_state, "output")

=============================================================================
